---- MODULE Spec2Model ----
(***************************************************************************)
(* A model of the skin-lesion classification service (src/api.py), its     *)
(* older serving variant (src/app.py) and the dataset assembly of the      *)
(* training script (src/SkinCancerModelCreation.py).                       *)
(*                                                                         *)
(* Seven specifications share the module:                                  *)
(*   Spec        the api.py process: startup load, then request handlers   *)
(*               running on concurrent worker threads;                     *)
(*   SpecApp     the app.py q2 handler on concurrent worker threads;       *)
(*   SpecResult  analyze_image's result construction, as a pure function   *)
(*               of the probability vector the network returns.            *)
(*   SpecAssembly the training script's dataset assembly and split, run    *)
(*               twice on the same sources;                                *)
(*   SpecReport  the confusion matrix built from the test partition;       *)
(*   SpecTraining the learning-rate callback over the epochs of model.fit; *)
(*   SpecPreprocess what the network receives for a pixel on the training, *)
(*               evaluation and serving paths.                             *)
(* File names are sequences of one-character strings, so that rsplit,      *)
(* lower and strip are computed rather than assumed.                       *)
(***************************************************************************)
EXTENDS Integers, Sequences, FiniteSets, TLC

\* ------------------------------------------------------------------ bounds
\* Analyze (resp. q2) requests accepted in one behaviour.
MaxRequests == 2
\* Largest entry of a modelled probability vector (probabilities are scaled
\* to integers; only their order and identity matter to the code).
MaxProb == 2

\* Two request threads of the threaded server (app.run): enough for every
\* pairwise interleaving of handlers.
Workers == {"t1", "t2"}
\* Largest number of rows of one class in the tabular source, largest
\* number of rows of the tabular source, and largest number of files in
\* the image directory.
MaxCount == 3
MaxRows == 8
MaxDirImages == 1
UUIDs == 1..MaxRequests

\* ---------------------------------------------------------- configuration
NumClasses == 8
ClassIds == 0..(NumClasses - 1)

\* api.py:42
ALLOWED_EXTENSIONS ==
    { <<"p","n","g">>, <<"j","p","g">>, <<"j","p","e","g">>, <<"g","i","f">> }

\* api.py:50-59
CANCER_CLASSES ==
    [i \in ClassIds |->
        CASE i = 0 -> "Actinic keratoses and intraepithelial carcinomae"
          [] i = 1 -> "Basal Cell Carcinoma"
          [] i = 2 -> "Benign Keratosis"
          [] i = 3 -> "Dermatofibroma"
          [] i = 4 -> "Melanocytic nevus"
          [] i = 5 -> "Vascular Lesion"
          [] i = 6 -> "Melanoma"
          [] i = 7 -> "No Cancer Detected"]

\* api.py:62-103
CANCER_INFO ==
    [i \in ClassIds |->
        CASE i = 0 -> [severity |-> "moderate",
                       description |-> "Pre-cancerous skin condition that may develop into squamous cell carcinoma.",
                       recommendation |-> "Consult a dermatologist for evaluation and treatment."]
          [] i = 1 -> [severity |-> "high",
                       description |-> "The most common form of skin cancer, grows slowly and rarely spreads.",
                       recommendation |-> "Immediate medical consultation required for proper treatment."]
          [] i = 2 -> [severity |-> "low",
                       description |-> "Non-cancerous growth, usually harmless but should be monitored.",
                       recommendation |-> "Regular monitoring recommended. Consult dermatologist if changes occur."]
          [] i = 3 -> [severity |-> "low",
                       description |-> "Benign fibrous nodule, generally harmless.",
                       recommendation |-> "Usually no treatment needed unless causing discomfort."]
          [] i = 4 -> [severity |-> "low",
                       description |-> "Common mole, typically benign but should be monitored.",
                       recommendation |-> "Monitor for changes using ABCDE method. Annual checkup recommended."]
          [] i = 5 -> [severity |-> "low",
                       description |-> "Abnormality of blood vessels, usually benign.",
                       recommendation |-> "Consult dermatologist if rapidly changing or bleeding."]
          [] i = 6 -> [severity |-> "critical",
                       description |-> "Most dangerous form of skin cancer. Early detection is crucial.",
                       recommendation |-> "URGENT: Immediate consultation with dermatologist required."]
          [] i = 7 -> [severity |-> "none",
                       description |-> "No signs of cancer detected in the analysis.",
                       recommendation |-> "Continue regular self-examinations and annual dermatologist visits."]]

\* ------------------------------------------------------- string helpers
\* str.lower() on the characters that occur in the modelled file names.
LowerChar(c) ==
    CASE c = "P" -> "p"
      [] c = "N" -> "n"
      [] c = "G" -> "g"
      [] c = "J" -> "j"
      [] OTHER -> c

Lower(s) == [i \in 1..Len(s) |-> LowerChar(s[i])]

\* '.' in s
HasDot(s) == \E i \in 1..Len(s) : s[i] = "."

\* Position of the last '.', 0 when there is none.
LastDot(s) ==
    IF HasDot(s)
    THEN CHOOSE i \in 1..Len(s) :
            s[i] = "." /\ \A j \in (i + 1)..Len(s) : s[j] # "."
    ELSE 0

\* s.rsplit('.', 1)[1]: the text after the last '.' (s holds a '.').
RSplitExt(s) == SubSeq(s, LastDot(s) + 1, Len(s))

\* s.strip("._")
RECURSIVE StripLeft(_)
StripLeft(s) ==
    IF Len(s) > 0 /\ s[1] \in {".", "_"} THEN StripLeft(Tail(s)) ELSE s

RECURSIVE StripRight(_)
StripRight(s) ==
    IF Len(s) > 0 /\ s[Len(s)] \in {".", "_"}
    THEN StripRight(SubSeq(s, 1, Len(s) - 1))
    ELSE s

\* werkzeug's secure_filename on names made of ASCII letters, digits, '.'
\* and '_': nothing is replaced, and leading and trailing '.' and '_' are
\* stripped.
secure_filename(s) == StripRight(StripLeft(s))

\* A variant of allowed_file that reads the text after the first '.'.
allowed_file_first_dot(filename) ==
    /\ HasDot(filename)
    /\ LET first == CHOOSE i \in 1..Len(filename) :
                        filename[i] = "." /\ \A j \in 1..(i - 1) : filename[j] # "."
           rest == SubSeq(filename, first + 1, Len(filename))
           ext == IF HasDot(rest) THEN SubSeq(rest, 1, LastDot(rest) - 1)
                  ELSE rest
       IN  Lower(ext) \in ALLOWED_EXTENSIONS

\* api.py:137-140
allowed_file(filename) ==
    HasDot(filename) /\ Lower(RSplitExt(filename)) \in ALLOWED_EXTENSIONS

\* api.py:142-147.  unique_id stands for str(uuid.uuid4()); the
\* second-resolution timestamp prefix adds nothing to uniqueness and is
\* left out of the name.
generate_unique_filename(original_filename, unique_id) ==
    [id  |-> unique_id,
     ext |-> IF HasDot(original_filename)
             THEN Lower(RSplitExt(original_filename))
             ELSE <<"j","p","g">>]


\* ------------------------------------------------------ analyze_image
\* A probability vector is a function ClassIds -> 0..MaxProb, the row
\* predictions[0] of the (1, 8) array model.predict returns.
Max(p) == CHOOSE m \in {p[i] : i \in DOMAIN p} : \A j \in DOMAIN p : p[j] <= m

\* A variant of Max that reads the first entry only.
FirstEntry(p) == p[0]

\* api.py:164  np.max(predictions)
MaxOf(p) == Max(p)

\* api.py:163  int(np.argmax(predictions)): the first index of the maximum.
ArgMax(p) ==
    CHOOSE i \in DOMAIN p :
        /\ p[i] = Max(p)
        /\ \A j \in DOMAIN p : j < i => p[j] < p[i]

\* api.py:167-169  the dict is filled in index order, so for a repeated key
\* the later entry would overwrite the earlier one.
Probabilities(p) ==
    [n \in {CANCER_CLASSES[i] : i \in DOMAIN p} |->
        LET last == CHOOSE i \in DOMAIN p :
                        /\ CANCER_CLASSES[i] = n
                        /\ \A j \in DOMAIN p : CANCER_CLASSES[j] = n => j <= i
        IN  p[last]]

\* api.py:171-180
AnalyzeResult(p) ==
    LET diagnosis_class == ArgMax(p) IN
    [success         |-> TRUE,
     diagnosis_class |-> diagnosis_class,
     diagnosis       |-> IF diagnosis_class \in DOMAIN CANCER_CLASSES
                         THEN CANCER_CLASSES[diagnosis_class] ELSE "Unknown",
     confidence      |-> MaxOf(p),
     severity        |-> CANCER_INFO[diagnosis_class].severity,
     description     |-> CANCER_INFO[diagnosis_class].description,
     recommendation  |-> CANCER_INFO[diagnosis_class].recommendation,
     probabilities   |-> Probabilities(p)]

\* api.py:181-186
AnalyzeFailure == [success |-> FALSE, error |-> "Image analysis failed"]

\* --------------------------------------------------------------- state
VARIABLES
    model,      \* api.py: the module-level model reference
    mainPc,     \* api.py: position of the __main__ block
    loadRet,    \* api.py: what load_ml_model returned ("none" before)
    uploads,    \* api.py: the upload directory, stored name -> content
    issued,     \* api.py: identifiers uuid4 has returned
    nreq,       \* requests accepted so far
    req,        \* api.py: per worker, the analyze request in flight
    reply,      \* api.py: last reply of health_check / get_image / get_info
    imageDir,   \* app.py: the upload directory, client name -> content
    q2,         \* app.py: per worker, the q2 request in flight
    predictions,\* analyze_image: the vector returned by model.predict
    result,     \* analyze_image: the result built from it
    counts,     \* training: rows of each label in hmnist_28_28_RGB.csv
    dirImages,  \* training: files in melanoma_cancer_dataset/train/benign/
    asmPc,      \* training: position of the script
    nc_data,    \* training: nc_data_list zipped with nc_data_label
    Data,       \* training: Data zipped with Label (they stay co-indexed)
    split,      \* training: what train_test_split returned
    run,        \* training: 1 for the first run of the script, 2 for a re-run
    firstSplit, \* training: the split of the first run
    y_true,     \* training: true class of each test instance
    y_pred,     \* training: predicted class of each test instance
    cm,         \* training: the confusion matrix, <<>> before it is built
    epoch,      \* training: epochs completed by model.fit
    lr,         \* training: the optimizer's learning rate, in LR units
    best,       \* ReduceLROnPlateau.best
    wait,       \* ReduceLROnPlateau.wait
    val_accuracy, \* training: val_accuracy of the last completed epoch
    bestSeen,   \* history: largest val_accuracy of the completed epochs
    stalled,    \* history: consecutive epochs whose val_accuracy did not
                \* exceed bestSeen, counted from the last reduction
    pixel,      \* preprocessing: a raw channel value of an image
    path,       \* preprocessing: the paths that have fed the network
    netInput    \* preprocessing: what the network received, per path

vars == <<model, mainPc, loadRet, uploads, issued, nreq, req, reply,
          imageDir, q2, predictions, result,
          counts, dirImages, asmPc, nc_data, Data, split, run, firstSplit,
          y_true, y_pred, cm, epoch, lr, best, wait, val_accuracy, bestSeen,
          stalled, pixel, path, netInput>>

apiVars == <<model, mainPc, loadRet, uploads, issued, req, reply>>
appVars == <<imageDir, q2>>
resVars == <<predictions, result>>
asmVars == <<counts, dirImages, asmPc, nc_data, Data, split, run, firstSplit>>
cmVars == <<y_true, y_pred, cm>>
lrVars == <<epoch, lr, best, wait, val_accuracy, bestSeen, stalled>>
preVars == <<pixel, path, netInput>>
trainVars == <<cmVars, lrVars, preVars>>

\* Contents of an uploaded file: a decodable image, bytes that are no
\* image, or the truncated file a failed write leaves behind.
Images == {"imgA", "imgB"}
Contents == Images \cup {"corrupt"}
Partial == "partial"

\* File names a client sends (api.py reads file.filename, app.py too).
FileNames ==
    { <<>>,
      <<"s">>,
      <<"s",".","t","x","t">>,
      <<"s",".","P","N","G">>,
      <<"s",".","p","n","g",".","t","x","t">>,
      <<".","g","i","f",".">> }

\* Vectors the loaded network returns in the service specification.
ServicePredictions ==
    { [i \in ClassIds |-> IF i = 4 THEN MaxProb ELSE 0],
      [i \in ClassIds |-> 1] }

NoFile == [id |-> 0, ext |-> <<>>]
NoResult == [success |-> FALSE, error |-> "none"]
NoResponse == [status |-> 0, success |-> FALSE, error |-> "none"]

IdleReq ==
    [pc |-> "idle", hasFile |-> FALSE, filename |-> <<>>, content |-> "none",
     original_filename |-> <<>>, filepath |-> NoFile,
     saved |-> FALSE, analyzeCalled |-> FALSE, decoded |-> "none",
     result |-> NoResult, response |-> NoResponse]

IdleQ2 ==
    [pc |-> "idle", hasFile |-> FALSE, filename |-> <<>>, content |-> "none",
     image4 |-> "none", decoded |-> "none",
     response |-> [status |-> 0, filename |-> <<>>, diagnosis |-> "none"]]

NoReply == [endpoint |-> "none"]

\* Writing and removing a file of a directory.
WriteFile(dir, name, c) ==
    [n \in DOMAIN dir \cup {name} |-> IF n = name THEN c ELSE dir[n]]

RemoveFile(dir, name) == [n \in DOMAIN dir \ {name} |-> dir[n]]

EmptyDir == [n \in {} |-> "none"]

\* api.py after import: no model (api.py:115), an empty upload directory,
\* __main__ not yet run.
InitApi ==
    /\ model = "None"
    /\ mainPc = "start"
    /\ loadRet = "none"
    /\ uploads = EmptyDir
    /\ issued = {}
    /\ req = [w \in Workers |-> IdleReq]
    /\ reply = NoReply

\* app.py after import: an upload directory (app.py:34-39), no request.
InitApp ==
    /\ imageDir = EmptyDir
    /\ q2 = [w \in Workers |-> IdleQ2]

\* analyze_image before it is called.
InitRes ==
    /\ predictions = [i \in ClassIds |-> 0]
    /\ result = NoResult

NoSplit == [train |-> <<>>, test |-> <<>>, ind_train |-> <<>>, ind_test |-> <<>>]

\* The training script before it runs, with empty sources.
InitAsm ==
    /\ counts = [c \in 0..6 |-> 0]
    /\ dirImages = 0
    /\ asmPc = "start"
    /\ nc_data = <<>>
    /\ Data = <<>>
    /\ split = NoSplit
    /\ run = 1
    /\ firstSplit = NoSplit

\* SkinCancerModelCreation.py:172
BASE_LR == 6400
\* SkinCancerModelCreation.py:131
MIN_LR == 64
\* SkinCancerModelCreation.py:127  min_delta is left at its default, 1e-4
MIN_DELTA == 2
\* Learning rates are counted in units of min_lr / 64 = 1.5625e-7, so that
\* 0.001 is 6400, the floor 1e-5 is 64 and every halving above the floor is
\* exact; accuracies are counted in units of min_delta / 2 = 5e-5.
\* Before the first epoch best is -infinity: any accuracy improves on it.
NegInfinity == 0 - (MIN_DELTA + 1)

\* The evaluation before it runs: nothing predicted, no matrix.
InitCm ==
    /\ y_true = <<>>
    /\ y_pred = <<>>
    /\ cm = <<>>

\* SkinCancerModelCreation.py:127-131, 172  the callback and the optimizer
\* before model.fit.
InitLr ==
    /\ epoch = 0
    /\ lr = BASE_LR
    /\ best = NegInfinity
    /\ wait = 0
    /\ val_accuracy = 0
    /\ bestSeen = NegInfinity
    /\ stalled = 0

\* The places that hand an image to the network: model.fit, model.evaluate
\* and model.predict of the training script, analyze_image of api.py and
\* q2 of app.py.
Paths == {"fit", "evaluate", "predict", "analyze_image", "q2"}

\* A network input is the rational num / den; perturbed tells whether a
\* random geometric transformation was applied on the way.
NoInput == [num |-> 0, den |-> 1, perturbed |-> FALSE]

\* No image has been fed to the network.
InitPre ==
    /\ pixel = 0
    /\ path = {}
    /\ netInput = [p \in Paths |-> NoInput]

Init ==
    /\ InitApi
    /\ InitApp
    /\ InitRes
    /\ InitAsm
    /\ InitCm
    /\ InitLr
    /\ InitPre
    /\ nreq = 0


\* ------------------------------------------------- api.py: startup
\* api.py:121  load_model either returns the artifact, which is bound to
\* the global at once, or raises, which leaves the global as it was and
\* makes load_ml_model return False (api.py:129-131).
LoadModel ==
    /\ mainPc = "start"
    /\ \/ /\ model' = "uncompiled"
          /\ mainPc' = "compile"
          /\ UNCHANGED loadRet
       \/ /\ loadRet' = "False"
          /\ mainPc' = "loaded"
          /\ UNCHANGED model
    /\ UNCHANGED <<uploads, issued, nreq, req, reply, appVars, resVars, asmVars, trainVars>>

\* api.py:122-131  model.compile configures the object the global already
\* names; when it raises, the handler returns False and the global keeps
\* the uncompiled object.
CompileModel ==
    /\ mainPc = "compile"
    /\ \/ /\ model' = "compiled"
          /\ loadRet' = "True"
       \/ /\ loadRet' = "False"
          /\ UNCHANGED model
    /\ mainPc' = "loaded"
    /\ UNCHANGED <<uploads, issued, nreq, req, reply, appVars, resVars, asmVars, trainVars>>

\* api.py:347-358  either outcome of load_ml_model is only printed; the
\* server starts.
AppRun ==
    /\ mainPc = "loaded"
    /\ mainPc' = "serving"
    /\ UNCHANGED <<model, loadRet, uploads, issued, nreq, req, reply,
                   appVars, resVars, asmVars, trainVars>>

\* ------------------------------------------------- api.py: analyze
\* A client's POST /api/analyze reaches worker w, which is idle or has sent
\* its previous response (pc = "done" keeps that response readable).
Receive(w) ==
    /\ mainPc = "serving"
    /\ req[w].pc \in {"idle", "done"}
    /\ nreq < MaxRequests
    /\ nreq' = nreq + 1
    /\ \/ req' = [req EXCEPT ![w] = [IdleReq EXCEPT !.pc = "analyze"]]
       \/ \E f \in FileNames, c \in Contents :
            req' = [req EXCEPT ![w] =
                      [IdleReq EXCEPT !.pc = "analyze", !.hasFile = TRUE,
                                      !.filename = f, !.content = c]]
    /\ UNCHANGED <<model, mainPc, loadRet, uploads, issued, reply,
                   appVars, resVars, asmVars, trainVars>>

\* A variant of Validate that looks at the request before the model.
ValidateRequestFirst(m, hasFile, filename) ==
    IF ~hasFile THEN 400
    ELSE IF filename = <<>> THEN 400
    ELSE IF ~allowed_file(filename) THEN 400
    ELSE IF m = "None" THEN 503
    ELSE 0

\* api.py:211-238  the status of the early returns, 0 when the request
\* passes all four checks.
Validate(m, hasFile, filename) ==
    IF m = "None" THEN 503
    ELSE IF ~hasFile THEN 400
    ELSE IF filename = <<>> THEN 400
    ELSE IF ~allowed_file(filename) THEN 400
    ELSE 0

\* api.py:212-215, 219-222, 228-231, 235-238
EarlyReturn(st) ==
    [status |-> st, success |-> FALSE,
     error |-> IF st = 503 THEN "Model not loaded" ELSE "Invalid request"]

\* api.py:145  uuid.uuid4(): an identifier not returned before (only its
\* being new matters, so the first unused one is taken).
uuid4(used) == CHOOSE u \in UUIDs : u \notin used /\ \A v \in UUIDs \ used : u <= v

\* api.py:209-243
AnalyzeValidate(w) ==
    /\ req[w].pc = "analyze"
    /\ LET st == Validate(model, req[w].hasFile, req[w].filename) IN
       IF st # 0
       THEN /\ req' = [req EXCEPT ![w].pc = "done",
                         ![w].response = EarlyReturn(st)]
            /\ UNCHANGED issued
       ELSE LET original == secure_filename(req[w].filename)
                u == uuid4(issued) IN
            /\ issued' = issued \cup {u}
            /\ req' = [req EXCEPT ![w].pc = "save",
                         ![w].original_filename = original,
                         ![w].filepath = generate_unique_filename(original, u)]
    /\ UNCHANGED <<model, mainPc, loadRet, uploads, nreq, reply,
                   appVars, resVars, asmVars, trainVars>>

\* api.py:266-271
ServerError == [status |-> 500, success |-> FALSE, error |-> "Server error"]

\* api.py:245  file.save writes the upload; it can raise before anything
\* is written or after part of the file is on disk (the handler at
\* api.py:266-271 then answers 500 and removes nothing).
FileSave(w) ==
    /\ req[w].pc = "save"
    /\ \/ /\ uploads' = WriteFile(uploads, req[w].filepath, req[w].content)
          /\ req' = [req EXCEPT ![w].pc = "load_img", ![w].saved = TRUE]
       \/ /\ uploads' = WriteFile(uploads, req[w].filepath, Partial)
          /\ req' = [req EXCEPT ![w].pc = "done", ![w].saved = TRUE,
                                ![w].response = ServerError]
       \/ /\ UNCHANGED uploads
          /\ req' = [req EXCEPT ![w].pc = "done",
                                ![w].response = ServerError]
    /\ UNCHANGED <<model, mainPc, loadRet, issued, nreq, reply,
                   appVars, resVars, asmVars, trainVars>>

\* api.py:249, 156-159  analyze_image decodes the file at image_path; a
\* missing or undecodable file raises inside its try block.
LoadImg(w) ==
    /\ req[w].pc = "load_img"
    /\ IF req[w].filepath \in DOMAIN uploads
          /\ uploads[req[w].filepath] \in Images
       THEN req' = [req EXCEPT ![w].pc = "predict",
                               ![w].analyzeCalled = TRUE,
                               ![w].decoded = uploads[req[w].filepath]]
       ELSE req' = [req EXCEPT ![w].pc = "respond",
                               ![w].analyzeCalled = TRUE,
                               ![w].result = AnalyzeFailure]
    /\ UNCHANGED <<model, mainPc, loadRet, uploads, issued, nreq, reply,
                   appVars, resVars, asmVars, trainVars>>

\* A variant of Predict that loads and compiles the model in the handler,
\* as app.py:85-86 does, but into the global.
PredictReloading(w) ==
    /\ req[w].pc = "predict"
    /\ model' = "compiled"
    /\ \/ \E p \in ServicePredictions :
               req' = [req EXCEPT ![w].pc = "respond",
                                  ![w].result = AnalyzeResult(p)]
       \/ req' = [req EXCEPT ![w].pc = "respond",
                             ![w].result = AnalyzeFailure]
    /\ UNCHANGED <<mainPc, loadRet, uploads, issued, nreq, reply,
                   appVars, resVars, asmVars, trainVars>>

\* api.py:162-186  the forward pass reads the global model; it returns a
\* vector or raises (a None model has no predict).
Predict(w) ==
    /\ req[w].pc = "predict"
    /\ \/ /\ model # "None"
          /\ \E p \in ServicePredictions :
               req' = [req EXCEPT ![w].pc = "respond",
                                  ![w].result = AnalyzeResult(p)]
       \/ req' = [req EXCEPT ![w].pc = "respond",
                             ![w].result = AnalyzeFailure]
    /\ UNCHANGED <<model, mainPc, loadRet, uploads, issued, nreq, reply,
                   appVars, resVars, asmVars, trainVars>>

\* api.py:264  jsonify(result), 500
AnalysisError(res) ==
    [status |-> 500, success |-> FALSE, error |-> res.error]

\* api.py:251-271  a success keeps the file; a failure removes it, unless
\* os.remove raises, which the outer handler turns into a 500 as well.
Respond(w) ==
    /\ req[w].pc = "respond"
    /\ IF req[w].result.success
       THEN /\ req' = [req EXCEPT ![w].pc = "done",
                         ![w].response =
                            [status |-> 200, success |-> TRUE,
                             result |-> req[w].result,
                             filename |-> req[w].filepath,
                             original_filename |-> req[w].original_filename]]
            /\ UNCHANGED uploads
       ELSE IF req[w].filepath \in DOMAIN uploads
       THEN \/ /\ uploads' = RemoveFile(uploads, req[w].filepath)
               /\ req' = [req EXCEPT ![w].pc = "done",
                            ![w].response = AnalysisError(req[w].result)]
            \/ /\ UNCHANGED uploads
               /\ req' = [req EXCEPT ![w].pc = "done",
                            ![w].response = ServerError]
       ELSE /\ req' = [req EXCEPT ![w].pc = "done",
                         ![w].response = AnalysisError(req[w].result)]
            /\ UNCHANGED uploads
    /\ UNCHANGED <<model, mainPc, loadRet, issued, nreq, reply,
                   appVars, resVars, asmVars, trainVars>>


\* ------------------------------------------- api.py: other endpoints
\* api.py:192-200
HealthCheck ==
    /\ mainPc = "serving"
    /\ reply' = [endpoint |-> "health", status |-> 200,
                 model_loaded |-> (model # "None")]
    /\ UNCHANGED <<model, mainPc, loadRet, uploads, issued, nreq, req,
                   appVars, resVars, asmVars, trainVars>>

\* api.py:273-282, 305-310  a stored name is served, any other name is
\* answered 404.
GetImage ==
    /\ mainPc = "serving"
    /\ \E n \in DOMAIN uploads \cup {NoFile} :
         reply' = IF n \in DOMAIN uploads
                  THEN [endpoint |-> "image", status |-> 200]
                  ELSE [endpoint |-> "image", status |-> 404]
    /\ UNCHANGED <<model, mainPc, loadRet, uploads, issued, nreq, req,
                   appVars, resVars, asmVars, trainVars>>

\* api.py:284-299
GetInfo ==
    /\ mainPc = "serving"
    /\ reply' = [endpoint |-> "info", status |-> 200,
                 classifications |->
                    [idx \in DOMAIN CANCER_CLASSES |->
                        [id |-> idx, name |-> CANCER_CLASSES[idx],
                         severity |-> CANCER_INFO[idx].severity,
                         description |-> CANCER_INFO[idx].description,
                         recommendation |-> CANCER_INFO[idx].recommendation]]]
    /\ UNCHANGED <<model, mainPc, loadRet, uploads, issued, nreq, req,
                   appVars, resVars, asmVars, trainVars>>

Next ==
    \/ LoadModel
    \/ CompileModel
    \/ AppRun
    \/ \E w \in Workers : Receive(w)
    \/ \E w \in Workers : AnalyzeValidate(w)
    \/ \E w \in Workers : FileSave(w)
    \/ \E w \in Workers : LoadImg(w)
    \/ \E w \in Workers : Predict(w)
    \/ \E w \in Workers : Respond(w)
    \/ HealthCheck
    \/ GetImage
    \/ GetInfo

Spec == Init /\ [][Next]_vars


\* ------------------------------------------------- app.py: q2
\* app.py:98-107
Q2_CANCER_CLASSES ==
    [i \in ClassIds |->
        CASE i = 0 -> "Actinic keratoses and intraepithelial carcinomae"
          [] i = 1 -> "Basal Cell Carcinoma"
          [] i = 2 -> "Benign Keratosis"
          [] i = 3 -> "Dermatofibroma"
          [] i = 4 -> "melanocytic nevus"
          [] i = 5 -> "Vascular Lesion"
          [] i = 6 -> "Melanoma"
          [] i = 7 -> "No Cancer Detected"]

\* Names clients send to q2; they are used as sent (app.py:69-72).
Q2FileNames == { <<>>, <<"s",".","P","N","G">>, <<"s",".","t","x","t">> }

\* app.py:123-125 and werkzeug's 400 for a missing form field
Q2Error(st) == [status |-> st, filename |-> <<>>, diagnosis |-> "none"]

\* A client's POST /q2 reaches worker w.
Q2Receive(w) ==
    /\ q2[w].pc \in {"idle", "done"}
    /\ nreq < MaxRequests
    /\ nreq' = nreq + 1
    /\ \/ q2' = [q2 EXCEPT ![w] = [IdleQ2 EXCEPT !.pc = "save"]]
       \/ \E f \in Q2FileNames, c \in Contents :
            q2' = [q2 EXCEPT ![w] =
                     [IdleQ2 EXCEPT !.pc = "save", !.hasFile = TRUE,
                                    !.filename = f, !.content = c]]
    /\ UNCHANGED <<apiVars, imageDir, resVars, asmVars, trainVars>>

\* app.py:68-72  request.files['file'] raises for a missing field (400);
\* saving under an empty name targets the directory itself and raises
\* (500); otherwise the upload replaces whatever the name held.
Q2Save(w) ==
    /\ q2[w].pc = "save"
    /\ IF ~q2[w].hasFile
       THEN /\ q2' = [q2 EXCEPT ![w].pc = "done", ![w].response = Q2Error(400)]
            /\ UNCHANGED imageDir
       ELSE IF q2[w].filename = <<>>
       THEN /\ q2' = [q2 EXCEPT ![w].pc = "done", ![w].response = Q2Error(500)]
            /\ UNCHANGED imageDir
       ELSE /\ imageDir' = WriteFile(imageDir, q2[w].filename, q2[w].content)
            /\ q2' = [q2 EXCEPT ![w].pc = "open"]
    /\ UNCHANGED <<apiVars, nreq, resVars, asmVars, trainVars>>

\* app.py:76  im.open reads the stored file; bytes that are no image raise.
Q2Open(w) ==
    /\ q2[w].pc = "open"
    /\ IF imageDir[q2[w].filename] \in Images
       THEN q2' = [q2 EXCEPT ![w].pc = "resave",
                             ![w].image4 = imageDir[q2[w].filename]]
       ELSE q2' = [q2 EXCEPT ![w].pc = "done", ![w].response = Q2Error(500)]
    /\ UNCHANGED <<apiVars, imageDir, nreq, resVars, asmVars, trainVars>>

\* app.py:77  the opened image is written back under the same name.
Q2Resave(w) ==
    /\ q2[w].pc = "resave"
    /\ imageDir' = WriteFile(imageDir, q2[w].filename, q2[w].image4)
    /\ q2' = [q2 EXCEPT ![w].pc = "load_model"]
    /\ UNCHANGED <<apiVars, nreq, resVars, asmVars, trainVars>>

\* app.py:79-86  the model is loaded and compiled into a local on every
\* request; a failure is a 500.
Q2LoadModel(w) ==
    /\ q2[w].pc = "load_model"
    /\ \/ q2' = [q2 EXCEPT ![w].pc = "load_img"]
       \/ q2' = [q2 EXCEPT ![w].pc = "done", ![w].response = Q2Error(500)]
    /\ UNCHANGED <<apiVars, imageDir, nreq, resVars, asmVars, trainVars>>

\* app.py:89-92  the image to classify is read from the stored file.
Q2LoadImg(w) ==
    /\ q2[w].pc = "load_img"
    /\ IF imageDir[q2[w].filename] \in Images
       THEN q2' = [q2 EXCEPT ![w].pc = "predict",
                             ![w].decoded = imageDir[q2[w].filename]]
       ELSE q2' = [q2 EXCEPT ![w].pc = "done", ![w].response = Q2Error(500)]
    /\ UNCHANGED <<apiVars, imageDir, nreq, resVars, asmVars, trainVars>>

\* app.py:95-112
Q2Predict(w) ==
    /\ q2[w].pc = "predict"
    /\ \E p \in ServicePredictions :
         LET diagnosis_class == ArgMax(p) IN
         q2' = [q2 EXCEPT ![w].pc = "done",
                  ![w].response =
                     [status |-> 200, filename |-> q2[w].filename,
                      diagnosis |->
                         IF diagnosis_class \in DOMAIN Q2_CANCER_CLASSES
                         THEN Q2_CANCER_CLASSES[diagnosis_class]
                         ELSE "Unknown"]]
    /\ UNCHANGED <<apiVars, imageDir, nreq, resVars, asmVars, trainVars>>

NextApp ==
    \/ \E w \in Workers : Q2Receive(w)
    \/ \E w \in Workers : Q2Save(w)
    \/ \E w \in Workers : Q2Open(w)
    \/ \E w \in Workers : Q2Resave(w)
    \/ \E w \in Workers : Q2LoadModel(w)
    \/ \E w \in Workers : Q2LoadImg(w)
    \/ \E w \in Workers : Q2Predict(w)

SpecApp == Init /\ [][NextApp]_vars

\* ------------------------------------ analyze_image as a pure function
\* model.predict may return any vector of 8 entries.
InitResult ==
    /\ InitApi
    /\ InitApp
    /\ InitAsm
    /\ InitCm
    /\ InitLr
    /\ InitPre
    /\ nreq = 0
    /\ predictions \in [ClassIds -> 0..MaxProb]
    /\ result = NoResult

\* api.py:163-180
BuildResult ==
    /\ result = NoResult
    /\ result' = AnalyzeResult(predictions)
    /\ UNCHANGED <<apiVars, appVars, nreq, predictions, asmVars, trainVars>>

SpecResult == InitResult /\ [][BuildResult]_vars

\* ------------------------------- SkinCancerModelCreation.py: assembly
\* Labels of the tabular source (the csv's label column) and the label
\* given to every directory image (SkinCancerModelCreation.py:53).
TabClasses == 0..6
NC_LABEL == 7
\* SkinCancerModelCreation.py:104
RANDOM_STATE == 49
TEST_SIZE_PERCENT == 25

\* An image is known by where it came from: row k of class c of the csv, or
\* file k of the directory.  An instance is an image with the label stored
\* next to it.
CsvImage(c, k) == [src |-> "csv", cls |-> c, k |-> k]
DirImage(k) == [src |-> "dir", cls |-> NC_LABEL, k |-> k]

RECURSIVE SumTo(_, _)
SumTo(f, c) == IF c < 0 THEN 0 ELSE f[c] + SumTo(f, c - 1)

\* The sources a run can find on disk.
Sources ==
    { f \in [TabClasses -> 0..MaxCount] : SumTo(f, 6) <= MaxRows }

\* SkinCancerModelCreation.py:58-63  the rows of the csv, class by class.
RECURSIVE CsvRows(_, _)
CsvRows(f, c) ==
    IF c < 0 THEN <<>>
    ELSE CsvRows(f, c - 1) \o
         [k \in 1..f[c] |-> [img |-> CsvImage(c, k), label |-> c]]

\* Number of instances of a sequence that carry label c.
CountOf(seq, c) == Cardinality({i \in 1..Len(seq) : seq[i].label = c})

PresentClasses(seq) == {seq[i].label : i \in 1..Len(seq)}

MaxCountOf(seq) ==
    LET cs == {CountOf(seq, c) : c \in PresentClasses(seq)} IN
    CHOOSE m \in cs : \A x \in cs : x <= m

\* imblearn's 'not majority' strategy: the classes that occur in y and
\* hold fewer rows than the largest class get more rows; labels that do
\* not occur in y are unknown to the sampler.
Deficient(seq) ==
    {c \in PresentClasses(seq) : CountOf(seq, c) < MaxCountOf(seq)}

MinOf(S) == CHOOSE x \in S : \A y \in S : x <= y

\* The pseudo-random generator behind train_test_split's shuffle: a fixed
\* function of the seed (a linear congruential stand-in for the Mersenne
\* twister of RandomState(49).permutation(n)).
Lcg(x) == (x * 75 + 74) % 65537

RECURSIVE Shuffle(_, _, _)
Shuffle(perm, i, x) ==
    IF i < 2 THEN perm
    ELSE LET y == Lcg(x)
             j == (y % i) + 1
         IN  Shuffle([perm EXCEPT ![i] = perm[j], ![j] = perm[i]], i - 1, y)

Permutation(seed, n) == Shuffle([i \in 1..n |-> i], n, seed)

\* ceil(test_size * n_samples)
NTest(n) == (TEST_SIZE_PERCENT * n + 99) \div 100

\* SkinCancerModelCreation.py:104  the first n_test entries of the
\* permutation index the test side, the rest the train side; both arrays
\* (images and labels) are indexed with the same indices.
TrainTestSplit(seq, seed) ==
    LET n == Len(seq)
        perm == Permutation(seed, n)
        ind_test == SubSeq(perm, 1, NTest(n))
        ind_train == SubSeq(perm, NTest(n) + 1, n)
    IN  [train |-> [i \in 1..Len(ind_train) |-> seq[ind_train[i]]],
         test |-> [i \in 1..Len(ind_test) |-> seq[ind_test[i]]],
         ind_train |-> ind_train,
         ind_test |-> ind_test]

\* The sources on disk when the script is first run.
ChooseSources ==
    /\ asmPc = "start"
    /\ run = 1
    /\ \E f \in Sources, d \in 0..MaxDirImages :
          /\ counts' = f
          /\ dirImages' = d
    /\ asmPc' = "load_nc"
    /\ UNCHANGED <<trainVars, apiVars, appVars, resVars, nreq, nc_data, Data, split,
                   run, firstSplit>>

\* SkinCancerModelCreation.py:43-53
LoadNonCancer ==
    /\ asmPc = "load_nc"
    /\ nc_data' = [k \in 1..dirImages |->
                      [img |-> DirImage(k), label |-> NC_LABEL]]
    /\ asmPc' = "read_csv"
    /\ UNCHANGED <<trainVars, apiVars, appVars, resVars, nreq, counts, dirImages, Data,
                   split, run, firstSplit>>

\* SkinCancerModelCreation.py:58-68  the csv is read; fit_resample refuses
\* a target with fewer than two classes, which ends the script.
ReadCsv ==
    /\ asmPc = "read_csv"
    /\ Data' = CsvRows(counts, 6)
    /\ asmPc' = IF Cardinality({c \in TabClasses : counts[c] > 0}) < 2
                THEN "error" ELSE "oversample"
    /\ UNCHANGED <<trainVars, apiVars, appVars, resVars, nreq, counts, dirImages,
                   nc_data, split, run, firstSplit>>

\* SkinCancerModelCreation.py:67-68  RandomOverSampler() has no
\* random_state: each added row is a draw, from numpy's unseeded global
\* generator, among the csv rows of the class being filled.  The copies
\* follow the original rows, class by class.
OversampleDraw ==
    /\ asmPc = "oversample"
    /\ Deficient(Data) # {}
    /\ LET c == MinOf(Deficient(Data)) IN
       \E k \in 1..counts[c] :
          Data' = Append(Data, [img |-> CsvImage(c, k), label |-> c])
    /\ UNCHANGED <<trainVars, apiVars, appVars, resVars, nreq, counts, dirImages, asmPc,
                   nc_data, split, run, firstSplit>>

\* SkinCancerModelCreation.py:75-85  the directory instances are appended
\* to the resampled rows, labels and images in the same order.
Combine ==
    /\ asmPc = "oversample"
    /\ Deficient(Data) = {}
    /\ Data' = Data \o nc_data
    /\ asmPc' = "split"
    /\ UNCHANGED <<trainVars, apiVars, appVars, resVars, nreq, counts, dirImages,
                   nc_data, split, run, firstSplit>>

\* SkinCancerModelCreation.py:104
Split ==
    /\ asmPc = "split"
    /\ split' = TrainTestSplit(Data, RANDOM_STATE)
    /\ asmPc' = "done"
    /\ UNCHANGED <<trainVars, apiVars, appVars, resVars, nreq, counts, dirImages,
                   nc_data, Data, run, firstSplit>>

\* The script is run again on the same sources.
Rerun ==
    /\ asmPc = "done"
    /\ run = 1
    /\ run' = 2
    /\ firstSplit' = split
    /\ asmPc' = "load_nc"
    /\ nc_data' = <<>>
    /\ Data' = <<>>
    /\ split' = NoSplit
    /\ UNCHANGED <<trainVars, apiVars, appVars, resVars, nreq, counts, dirImages>>

NextAssembly ==
    \/ ChooseSources
    \/ LoadNonCancer
    \/ ReadCsv
    \/ OversampleDraw
    \/ Combine
    \/ Split
    \/ Rerun

SpecAssembly == Init /\ [][NextAssembly]_vars

\* =================================================================
\* Properties of the api.py service (specification Spec)
\* =================================================================

\* C1: while the model reference is None, every analyze call ends with the
\* service-unavailable response (status 503, success false) whatever the
\* request holds, and on that path nothing is saved, analyze_image is not
\* called and nothing is decoded.
C1_ModelNoneIsUnavailable ==
    (mainPc = "serving" /\ model = "None") =>
        /\ uploads = EmptyDir
        /\ \A w \in Workers :
            /\ req[w].pc \in {"idle", "analyze", "done"}
            /\ ~req[w].saved
            /\ ~req[w].analyzeCalled
            /\ req[w].decoded = "none"
            /\ req[w].pc = "done" =>
                  /\ req[w].response.status = 503
                  /\ ~req[w].response.success

\* A well-formed image was answered 503 because no model is loaded.
C1_Witness ==
    \E w \in Workers :
        /\ model = "None"
        /\ req[w].pc = "done"
        /\ req[w].hasFile
        /\ req[w].filename = <<"s",".","P","N","G">>
        /\ req[w].content \in Images
        /\ req[w].response.status = 503

\* The name, lower-cased, ends with '.' followed by ext.
EndsWithExt(name, ext) ==
    /\ Len(name) > Len(ext)
    /\ name[Len(name) - Len(ext)] = "."
    /\ \A i \in 1..Len(ext) :
          LowerChar(name[Len(name) - Len(ext) + i]) = ext[i]

\* The name has no allow-listed extension after its last '.'.
Unsupported(name) ==
    \A ext \in { <<"p","n","g">>, <<"j","p","g">>, <<"j","p","e","g">>,
                 <<"g","i","f">> } : ~EndsWithExt(name, ext)

\* C2: with a model loaded, an upload whose name has no extension or an
\* extension outside {png, jpg, jpeg, gif} (case-insensitive, text after the
\* last '.') is answered 400; no file is saved and analyze_image is not
\* called.
C2_BadExtensionRejected ==
    \A w \in Workers :
        (/\ model # "None"
         /\ req[w].pc \notin {"idle", "analyze"}
         /\ req[w].hasFile
         /\ Unsupported(req[w].filename)) =>
            /\ req[w].pc = "done"
            /\ req[w].response.status = 400
            /\ req[w].filepath = NoFile
            /\ ~req[w].saved
            /\ ~req[w].analyzeCalled
            /\ req[w].decoded = "none"

\* A name whose last extension is txt (though it holds ".png") was
\* rejected while a model was loaded.
C2_Witness ==
    \E w \in Workers :
        /\ model = "compiled"
        /\ req[w].pc = "done"
        /\ req[w].filename = <<"s",".","p","n","g",".","t","x","t">>
        /\ req[w].response.status = 400

\* C3 (as claimed): once a request has written its upload, every response
\* other than 200 leaves no file under the name it wrote.
C3_UploadRemovedUnlessSuccess ==
    \A w \in Workers :
        (/\ req[w].pc = "done"
         /\ req[w].saved
         /\ req[w].response.status # 200) =>
            req[w].filepath \notin DOMAIN uploads

\* C5 (as claimed): the model reference is always None or a loaded and
\* compiled artifact, and a load that reported failure leaves the previous
\* value (None) in place.
C5_ModelSwapAtomic ==
    /\ model \in {"None", "compiled"}
    /\ loadRet = "False" => model = "None"

\* C6: after startup no step of any request handler changes the model
\* reference; it is written by load_ml_model alone, before the server runs.
C6_ModelWrittenOnlyAtStartup ==
    [][mainPc = "serving" => model' = model]_vars

\* Requests of every kind have been served: an analyze answered 200, and a
\* GET endpoint replied.
C6_Witness ==
    /\ mainPc = "serving"
    /\ reply.endpoint # "none"
    /\ \E w \in Workers :
          req[w].pc = "done" /\ req[w].response.status = 200

\* C7 (as claimed): after a load that returned False, health_check reports
\* model_loaded = false and analyze answers 503; health_check reports
\* model_loaded = true only after a load that returned True.
C7_DegradedModeConsistent ==
    /\ loadRet = "False" =>
          /\ reply.endpoint = "health" => ~reply.model_loaded
          /\ \A w \in Workers :
                req[w].pc = "done" => req[w].response.status = 503
    /\ (reply.endpoint = "health" /\ reply.model_loaded) => loadRet = "True"


\* =================================================================
\* Properties of concurrent requests (specifications Spec and SpecApp)
\* =================================================================

\* C4 (as claimed, for both serving variants): the image a request decodes
\* is the image that request uploaded, and while a request is between its
\* save and its response the file it stored still holds its own upload.
C4_NoCrossContamination ==
    \A w \in Workers :
        /\ req[w].decoded # "none" => req[w].decoded = req[w].content
        /\ req[w].pc \in {"load_img", "predict", "respond"} =>
              /\ req[w].filepath \in DOMAIN uploads
              /\ uploads[req[w].filepath] = req[w].content
        /\ q2[w].decoded # "none" => q2[w].decoded = q2[w].content
        /\ q2[w].pc \in {"open", "resave", "load_model", "load_img", "predict"} =>
              /\ q2[w].filename \in DOMAIN imageDir
              /\ imageDir[q2[w].filename] = q2[w].content

\* =================================================================
\* Properties of the result (specification SpecResult)
\* =================================================================

\* C8: for every 8-entry vector, the successful result names an index of
\* the maximum entry as diagnosis_class, that entry as confidence, exactly
\* 8 probabilities (class name i -> entry i), and the taxonomy fields of
\* that diagnosis_class; every id 0..7 has its taxonomy entries.
C8_ResultMatchesVector ==
    /\ \A i \in 0..7 : i \in DOMAIN CANCER_CLASSES /\ i \in DOMAIN CANCER_INFO
    /\ result.success =>
        LET dc == result.diagnosis_class IN
        /\ dc \in 0..7
        /\ \A j \in 0..7 : predictions[j] <= predictions[dc]
        /\ result.confidence = predictions[dc]
        /\ Cardinality(DOMAIN result.probabilities) = 8
        /\ \A i \in 0..7 :
              result.probabilities[CANCER_CLASSES[i]] = predictions[i]
        /\ result.diagnosis = CANCER_CLASSES[dc]
        /\ result.diagnosis # "Unknown"
        /\ result.severity = CANCER_INFO[dc].severity
        /\ result.description = CANCER_INFO[dc].description
        /\ result.recommendation = CANCER_INFO[dc].recommendation

\* A result was built from a vector whose single maximum is not its first
\* entry.
C8_Witness ==
    /\ result.success
    /\ result.diagnosis_class = 6
    /\ predictions[0] = 1
    /\ predictions[6] = 2


\* =================================================================
\* Properties of the dataset assembly (specification SpecAssembly)
\* =================================================================

\* The largest of the 7 per-class row counts of the csv.
MaxOriginalCount ==
    CHOOSE m \in {counts[c] : c \in 0..6} : \A c \in 0..6 : counts[c] <= m

\* C9 (as claimed): for any per-class counts of the csv and any number of
\* directory images, the assembled dataset holds exactly the largest
\* original count of each of the classes 0..6, and exactly the directory's
\* images for class 7.
C9_SevenClassesBalanced ==
    asmPc \in {"split", "done"} =>
        /\ \A c \in 0..6 : CountOf(Data, c) = MaxOriginalCount
        /\ CountOf(Data, 7) = dirImages

\* The index sets of the split are disjoint, cover every index once, and
\* the test side holds ceil(n / 4) of them.
SplitPartitions ==
    asmPc = "done" =>
        LET n == Len(Data)
            tr == {split.ind_train[i] : i \in 1..Len(split.ind_train)}
            te == {split.ind_test[i] : i \in 1..Len(split.ind_test)}
        IN  /\ tr \cap te = {}
            /\ tr \cup te = 1..n
            /\ Cardinality(tr) = Len(split.ind_train)
            /\ Cardinality(te) = Len(split.ind_test)
            /\ 4 * Len(split.ind_test) >= n
            /\ 4 * (Len(split.ind_test) - 1) < n
            /\ Len(split.train) = Len(split.ind_train)
            /\ Len(split.test) = Len(split.ind_test)

\* Every instance on either side still carries the label of its image.
SplitKeepsPairs ==
    asmPc = "done" =>
        /\ \A i \in 1..Len(split.train) :
              split.train[i].label = split.train[i].img.cls
        /\ \A i \in 1..Len(split.test) :
              split.test[i].label = split.test[i].img.cls

\* A re-run on the same sources yields the index sets of the first run.
SplitIndicesRepeat ==
    (asmPc = "done" /\ run = 2) =>
        /\ split.ind_train = firstSplit.ind_train
        /\ split.ind_test = firstSplit.ind_test

\* A re-run on the same sources yields the train and test instances of the
\* first run.
SplitContentsRepeat ==
    (asmPc = "done" /\ run = 2) =>
        /\ split.train = firstSplit.train
        /\ split.test = firstSplit.test

\* C10 (as claimed): the split's index sets are disjoint and cover the
\* dataset with 25% held out, images stay paired with their labels on both
\* sides, and running the assembly twice on the same sources with the same
\* seed yields the identical split.
C10_SplitPartitionsAndRepeats ==
    /\ SplitPartitions
    /\ SplitKeepsPairs
    /\ SplitIndicesRepeat
    /\ SplitContentsRepeat


\* C11 (as claimed): no source image contributes an instance to both
\* partitions: a csv row and every resampled copy of it land on the same
\* side of the split.
C11_NoImageInBothPartitions ==
    asmPc = "done" =>
        \A i \in 1..Len(split.train), j \in 1..Len(split.test) :
            split.train[i].img # split.test[j].img

\* =================================================================
\* SkinCancerModelCreation.py: the confusion matrix (specification
\* SpecReport)
\* =================================================================
\* Largest number of instances in a modelled test partition.
MaxTest == 2

\* SkinCancerModelCreation.py:90-97, 246-248  the keys of the classes dict
\* in the order the dict literal lists them.
classes_labels == <<4, 6, 2, 1, 5, 0, 3, 7>>

\* sklearn's confusion_matrix(y_true, y_pred, labels=labels): entry (p, q)
\* counts the samples whose true class is labels[p] and whose predicted
\* class is labels[q].  Rows and columns are numbered from 1 here, so that
\* numpy's row i is row i + 1.
confusion_matrix(yt, yp, labels) ==
    [p \in 1..Len(labels) |->
        [q \in 1..Len(labels) |->
            Cardinality({k \in 1..Len(yt) :
                            yt[k] = labels[p] /\ yp[k] = labels[q]})]]

\* The test partition's labels, one-hot encoded and decoded again by argmax
\* (SkinCancerModelCreation.py:113, 239, 243): any labels of the 8 classes.
InitReport ==
    /\ InitApi
    /\ InitApp
    /\ InitRes
    /\ InitAsm
    /\ InitLr
    /\ InitPre
    /\ nreq = 0
    /\ \E n \in 0..MaxTest : y_true \in [1..n -> ClassIds]
    /\ y_pred = <<>>
    /\ cm = <<>>

\* SkinCancerModelCreation.py:240-242  the network's answer for each test
\* instance, whatever it is.
PredictTest ==
    /\ cm = <<>>
    /\ y_pred = <<>>
    /\ y_pred' \in [1..Len(y_true) -> ClassIds]
    /\ UNCHANGED <<apiVars, appVars, resVars, asmVars, lrVars, preVars, nreq,
                   y_true, cm>>

\* SkinCancerModelCreation.py:246-255
ConfusionMatrix ==
    /\ cm = <<>>
    /\ Len(y_pred) = Len(y_true)
    /\ cm' = confusion_matrix(y_true, y_pred, classes_labels)
    /\ UNCHANGED <<apiVars, appVars, resVars, asmVars, lrVars, preVars, nreq,
                   y_true, y_pred>>

NextReport ==
    \/ PredictTest
    \/ ConfusionMatrix

SpecReport == InitReport /\ [][NextReport]_vars

RECURSIVE RowSum(_, _)
RowSum(row, n) == IF n = 0 THEN 0 ELSE row[n] + RowSum(row, n - 1)

\* The matrix is 8x8 and the sum of the row kept for class
\* classes_labels[p] is the number of test instances of that class.
MatrixRowsCountClasses ==
    cm # <<>> =>
        /\ Len(cm) = NumClasses
        /\ \A p \in 1..NumClasses :
            /\ Len(cm[p]) = NumClasses
            /\ RowSum(cm[p], NumClasses) =
                   Cardinality({k \in 1..Len(y_true) :
                                   y_true[k] = classes_labels[p]})

\* C12 (as claimed): the confusion matrix is 8x8, row i and column j stand
\* for true class i and predicted class j in the order 0, 1, ..., 7, and the
\* sum of row i is the number of test instances whose true label is i.
C12_MatrixInCanonicalOrder ==
    cm # <<>> =>
        /\ Len(cm) = NumClasses
        /\ \A i \in ClassIds :
            /\ Len(cm[i + 1]) = NumClasses
            /\ classes_labels[i + 1] = i
            /\ \A j \in ClassIds :
                cm[i + 1][j + 1] =
                    Cardinality({k \in 1..Len(y_true) :
                                    y_true[k] = i /\ y_pred[k] = j})
            /\ RowSum(cm[i + 1], NumClasses) =
                   Cardinality({k \in 1..Len(y_true) : y_true[k] = i})

\* =================================================================
\* SkinCancerModelCreation.py: the learning-rate policy (specification
\* SpecTraining)
\* =================================================================
\* Largest modelled validation accuracy, in units of 5e-5: enough for an
\* improvement below, at and above the callback's threshold.
MaxAcc == 3

\* SkinCancerModelCreation.py:180
EPOCHS == 25
\* SkinCancerModelCreation.py:128
PATIENCE == 2

\* What a validation accuracy can be, in units of 5e-5.
Accuracies == 0..MaxAcc

\* The reduction without the floor.
reduced_lr_unclamped(old_lr) == old_lr \div 2

\* SkinCancerModelCreation.py:130-131  new_lr = max(old_lr * factor, min_lr)
\* with factor = 0.5.
reduced_lr(old_lr) ==
    IF old_lr \div 2 >= MIN_LR THEN old_lr \div 2 ELSE MIN_LR

\* ReduceLROnPlateau.monitor_op for val_accuracy (mode auto resolves to max):
\* current > best + min_delta.
monitor_op(current, b) == current > b + MIN_DELTA

\* SkinCancerModelCreation.py:178-183  one epoch of model.fit ends with
\* validation accuracy a, and ReduceLROnPlateau.on_epoch_end runs
\* (cooldown is 0, so the callback is never in cooldown).  bestSeen and
\* stalled record the same epochs the way the policy is described: the
\* largest accuracy so far, and the run of epochs that did not exceed it,
\* started again after every second one.
EpochEnd ==
    /\ epoch < EPOCHS
    /\ \E a \in Accuracies :
        /\ val_accuracy' = a
        /\ IF monitor_op(a, best)
           THEN /\ best' = a
                /\ wait' = 0
                /\ lr' = lr
           ELSE /\ best' = best
                /\ IF wait + 1 >= PATIENCE /\ lr > MIN_LR
                   THEN /\ lr' = reduced_lr(lr)
                        /\ wait' = 0
                   ELSE /\ lr' = lr
                        /\ wait' = wait + 1
        /\ bestSeen' = IF a > bestSeen THEN a ELSE bestSeen
        /\ stalled' = IF a > bestSeen THEN 0
                      ELSE IF stalled + 1 >= PATIENCE THEN 0
                      ELSE stalled + 1
    /\ epoch' = epoch + 1
    /\ UNCHANGED <<apiVars, appVars, resVars, asmVars, cmVars, preVars, nreq>>

NextTraining == EpochEnd

SpecTraining == Init /\ [][NextTraining]_vars

PolicyBookkeeping ==
    /\ epoch > 0 => (best <= bestSeen /\ bestSeen <= best + MIN_DELTA)
    /\ lr > MIN_LR => wait < PATIENCE
    /\ MIN_LR <= lr /\ lr <= BASE_LR
    /\ epoch <= EPOCHS

RESCALE_DEN == 255

\* SkinCancerModelCreation.py:117-121  the generator declared for training:
\* rescale and random rotation, zoom and shifts.
datagen == [rescale_num |-> 1, rescale_den |-> RESCALE_DEN, perturbs |-> TRUE]

\* SkinCancerModelCreation.py:123  the generator declared for evaluation.
testgen == [rescale_num |-> 1, rescale_den |-> RESCALE_DEN, perturbs |-> FALSE]

\* SkinCancerModelCreation.py:53, 69, 85  np.asarray / np.array of the
\* image: the channel value as it is.
asarray(px) == [num |-> px, den |-> 1, perturbed |-> FALSE]

\* api.py:157, app.py:90  img_to_array(img): the channel value as a float.
img_to_array(px) == [num |-> px, den |-> 1, perturbed |-> FALSE]

InitPreprocess ==
    /\ InitApi
    /\ InitApp
    /\ InitRes
    /\ InitAsm
    /\ InitCm
    /\ InitLr
    /\ nreq = 0
    /\ pixel \in 0..RESCALE_DEN
    /\ path = {}
    /\ netInput = [p \in Paths |-> NoInput]

\* The network receives x on path p.
Feed(p, x) ==
    /\ p \notin path
    /\ path' = path \cup {p}
    /\ netInput' = [netInput EXCEPT ![p] = x]
    /\ UNCHANGED <<apiVars, appVars, resVars, asmVars, cmVars, lrVars, nreq,
                   pixel>>

\* SkinCancerModelCreation.py:178-183  model.fit(X_train, ...): the arrays
\* of the split, not datagen.flow(...).
FeedFit == Feed("fit", asarray(pixel))

\* SkinCancerModelCreation.py:229-230  model.evaluate on the arrays.
FeedEvaluate == Feed("evaluate", asarray(pixel))

\* SkinCancerModelCreation.py:240  model.predict(X_test).
FeedPredict == Feed("predict", asarray(pixel))

\* api.py:156-162
FeedAnalyzeImage == Feed("analyze_image", img_to_array(pixel))

\* app.py:89-95
FeedQ2 == Feed("q2", img_to_array(pixel))

NextPreprocess ==
    \/ FeedFit
    \/ FeedEvaluate
    \/ FeedPredict
    \/ FeedAnalyzeImage
    \/ FeedQ2

SpecPreprocess == InitPreprocess /\ [][NextPreprocess]_vars

\* Every path hands the network the same value for the same channel value,
\* and none perturbs the image.
PathsAgree ==
    \A p, q \in path :
        /\ netInput[p].num * netInput[q].den = netInput[q].num * netInput[p].den
        /\ ~netInput[p].perturbed

\* C14 (as claimed): on the training, evaluation and serving paths the
\* network receives the channel value scaled by one and the same factor,
\* the configured rescale value 1/255, and the serving paths apply that
\* rescale and no geometric perturbation.
C14_SharedRescaleFactor ==
    /\ datagen.rescale_den = testgen.rescale_den
    /\ datagen.rescale_num = testgen.rescale_num
    /\ \A p \in path :
        /\ netInput[p].num * testgen.rescale_den =
               pixel * testgen.rescale_num * netInput[p].den
        /\ p \in {"analyze_image", "q2"} => ~netInput[p].perturbed

====
